---- MODULE Spec2Model ----
(***************************************************************************)
(* The zenblog client SDK as a state machine.                              *)
(*                                                                         *)
(*   management client  packages/zenblog/src/index.ts                      *)
(*                      (createFetcher._fetch, createZenblogClient)        *)
(*   public client      createClient and its helpers (logError,            *)
(*                      createDebugger, getConfig, throwError)             *)
(*                                                                         *)
(* An async function is cut at its await points: a call is started (the    *)
(* code up to and including fetch(URL, opts)), the fetch promise settles   *)
(* (a response arrives or the transport fails), and res.json() settles     *)
(* (the rest of the function runs to its return or throw).                 *)
(***************************************************************************)
EXTENDS Integers, Sequences, FiniteSets, TLC

VARIABLES window, mgmt, pub, calls, sent, console,
          storage, blog_images, reqs, r2BaseUrl

\* the state of the SDK clients and the state of the image routes
sdkVars == <<window, mgmt, pub, calls, sent, console>>
imageVars == <<storage, blog_images, reqs, r2BaseUrl>>

vars == <<sdkVars, imageVars>>

----------------------------------------------------------------------------
(* Bounds of the model *)

\* number of SDK calls a behaviour may issue
MaxCalls == 1

\* number of calls that may be in flight together
MaxConcurrent == 2

\* number of requests the image routes serve in a behaviour
MaxRequests == 2

CallIds == 1..MaxCalls

----------------------------------------------------------------------------
(* JavaScript values *)

Undefined == "undefined"

\* a string is falsy exactly when it is empty; undefined is falsy
Falsy(v) == v = "" \/ v = Undefined

\* a || b on strings
OrElse(a, b) == IF Falsy(a) THEN b ELSE a

\* { ...a, ...b }: keys of both, b's value where both have the key
Spread(a, b) ==
  [k \in (DOMAIN a) \cup (DOMAIN b) |-> IF k \in DOMAIN b THEN b[k] ELSE a[k]]

NoHeaders == [k \in {} |-> ""]

----------------------------------------------------------------------------
(* Inputs *)

Windows == {Undefined, "[object Window]"}
AccessTokens == {"", "tok"}
BlogIds == {"", "blog1"}
UrlOpts == {Undefined, "http://localhost:8082"}
DebugOpts == {Undefined, "true"}
Slugs == {"hello"}
CacheOpts == {Undefined, "no-store"}

\* whether a debug option (boolean | undefined) is on after `debug || false`
DebugOn(d) == ~Falsy(d)

----------------------------------------------------------------------------
(* Messages of the source *)

MsgInactive == "Zenblog subscription is inactive. Go to https://zenblog.com to subscribe."
MsgFetching == "Error fetching data from API"
MsgBrowser == "Zenblog is not supported in the browser. Make sure you don't leak your access token."
MsgToken == "accessToken is required"
MsgBlogId == "blogId is required"

\* the prefix throwError puts in front of the message (a siren emoji in brackets)
ErrorPrefix == "[siren] "
\* the prefix of every console line of logError and createDebugger (an emoji)
LogPrefix == "[orange] "
CatchPrefix == "[Zenblog Error] "

\* a message is the concatenation of its parts; it matches a text that is
\* one of its parts
Matches(message, text) == \E i \in 1..Len(message) : message[i] = text

----------------------------------------------------------------------------
(* Errors and console lines *)

NoError == [name |-> "none", message |-> <<>>, extra |-> <<>>]

\* new Error(message): an Error object has a name and a message and no other
\* own field; extra lists what else the thrower attached to it
NewError(message) == [name |-> "Error", message |-> message, extra |-> <<>>]

\* what res.json() rejects with on a body that is not JSON
SyntaxError == [name |-> "SyntaxError", message |-> <<"Unexpected token">>, extra |-> <<>>]
\* what fetch() rejects with when the transport fails
NetworkError == [name |-> "TypeError", message |-> <<"fetch failed">>, extra |-> <<>>]
\* what posts.map(...) throws when posts is not an array
MapTypeError == [name |-> "TypeError", message |-> <<"posts.map is not a function">>, extra |-> <<>>]

\* logError(...args): console.error(prefix, ...args)
logError(args) == <<[level |-> "error", prefix |-> LogPrefix, args |-> args]>>

\* createDebugger(debug)(...args): console.log(prefix, ...args) when debug
createDebugger(debug, args) ==
  IF debug THEN <<[level |-> "log", prefix |-> LogPrefix, args |-> args]>> ELSE <<>>

\* faulty variant: the thrown error also carries the arguments
throwError_attaching(msg, args) ==
  [log |-> logError(<<msg>> \o args),
   error |-> [name |-> "Error", message |-> <<ErrorPrefix, msg>>, extra |-> args]]

\* throwError(msg, ...args): logs msg and args, throws new Error(prefix + msg)
throwError(msg, args) ==
  [log |-> logError(<<msg>> \o args),
   error |-> NewError(<<ErrorPrefix, msg>>)]

\* throwError and createLogger of ./lib, imported by the management client
lib_throwError(msg, args) == throwError(msg, args)
createLogger(debug, args) == createDebugger(debug, args)

----------------------------------------------------------------------------
(* Responses of the server *)

Null == "null"

Statuses == {200, 404}
\* res.headers.get("zenblog-subscription-status"): null when the header is absent
SubscriptionHeaders == {Null, "inactive", "active"}
\* the response body as text
Bodies == {"<html>", "[posts]", "{post}"}

Responses == [status : Statuses, subscription : SubscriptionHeaders, body : Bodies]

NoResponse == [status |-> 0, subscription |-> Null, body |-> ""]

\* res.ok: the status is in the range 200-299
Ok(res) == res.status >= 200 /\ res.status <= 299

\* the posts the server holds: the second has a cover image, both have content
ServerPosts ==
  << [slug |-> "first", title |-> "First", created_at |-> "d1", updated_at |-> "d2",
      content |-> "body one"],
     [slug |-> "second", title |-> "Second", created_at |-> "d3", updated_at |-> "d4",
      content |-> "body two", cover_image |-> "cover.png"] >>

NoValue == [type |-> "none"]
JsonArray(items) == [type |-> "array", items |-> items]
JsonObject(fields) == [type |-> "object", fields |-> fields]

\* valid posts a server may list: with and without a cover image, with and
\* without fields beyond the Post shape
PostA == ServerPosts[1]
PostB == ServerPosts[2]
PostC ==
  [slug |-> "third", title |-> "First", created_at |-> "d1", updated_at |-> "d5"]
PostD ==
  [slug |-> "fourth", title |-> "Fourth", created_at |-> "d6", updated_at |-> "d7",
   cover_image |-> "four.png", tags |-> "news"]

\* bodies that are JSON arrays of valid posts, by their text
ListBodyItems ==
  ("[]" :> <<>>) @@ ("[a]" :> <<PostA>>) @@ ("[b,a]" :> <<PostB, PostA>>)
    @@ ("[a,b,c]" :> <<PostA, PostB, PostC>>) @@ ("[c,c]" :> <<PostC, PostC>>)
    @@ ("[d,c,b,a]" :> <<PostD, PostC, PostB, PostA>>)

ListBodies == DOMAIN ListBodyItems

\* res.json(): the parsed body, or a rejection when the text is not JSON
ResJson(res) ==
  CASE res.body = "[posts]" -> [ok |-> TRUE, value |-> JsonArray(ServerPosts)]
    [] res.body = "{post}" -> [ok |-> TRUE, value |-> JsonObject(ServerPosts[1])]
    [] res.body \in ListBodies -> [ok |-> TRUE, value |-> JsonArray(ListBodyItems[res.body])]
    [] OTHER -> [ok |-> FALSE, value |-> NoValue]

\* the object the code logs after a response: {status, statusText, ok, json}
ResLine(res, json) == [status |-> res.status, ok |-> Ok(res), json |-> json]

----------------------------------------------------------------------------
(* Outcomes of a call *)

Pending == [kind |-> "pending", value |-> NoValue, error |-> NoError]
Returned(v) == [kind |-> "returned", value |-> v, error |-> NoError]
Threw(e) == [kind |-> "threw", value |-> NoValue, error |-> e]

\* the catch block of the management _fetch: console.error(prefix, error)
CatchLine(e) == <<[level |-> "error", prefix |-> CatchPrefix, args |-> <<e>>]>>

----------------------------------------------------------------------------
(* Management client: createFetcher._fetch *)

\* the default headers of every management request
DefaultHeaders(accessToken) ==
  [authorization |-> <<"Bearer ", accessToken>>]
    @@ ("Content-Type" :> "application/json")

HeadersOf(opts) == IF "headers" \in DOMAIN opts THEN opts.headers ELSE NoHeaders

\* faulty variant: the default headers are spread after the per-call headers
fetcher_request_defaultsWin(config, path, opts) ==
  [url |-> <<config.api>> \o path,
   opts |-> Spread(opts,
              [headers |-> Spread(HeadersOf(opts), DefaultHeaders(config.accessToken))])]

\* _fetch up to fetch(URL, reqOpts): the URL and the merged options
fetcher_request(config, path, opts) ==
  [url |-> <<config.api>> \o path,
   opts |-> Spread(opts,
              [headers |-> Spread(DefaultHeaders(config.accessToken), HeadersOf(opts))])]

\* log("fetch ", URL, reqOpts)
fetcher_requestLog(debug, req) == createLogger(debug, <<"fetch ", req.url, req.opts>>)

\* fetch() rejected: the catch block logs the error and rethrows it
fetcher_rejected(e) == [outcome |-> Threw(e), log |-> CatchLine(e)]

\* the try block after `await res.json()` has settled with a value
fetcher_body(debug, res, json) ==
  IF res.subscription = "inactive"
  THEN LET t == lib_throwError(MsgInactive, <<>>)
       IN [outcome |-> Threw(t.error), log |-> t.log \o CatchLine(t.error)]
  ELSE LET l == createLogger(debug, <<"res", ResLine(res, json)>>)
       IN IF ~Ok(res)
          THEN LET t == lib_throwError(MsgFetching, <<res>>)
               IN [outcome |-> Threw(t.error), log |-> l \o t.log \o CatchLine(t.error)]
          ELSE [outcome |-> Returned(json), log |-> l]

\* faulty variant: res.ok is tested before the subscription header
fetcher_settle_okFirst(debug, res) ==
  LET parsed == ResJson(res)
  IN IF ~parsed.ok THEN fetcher_rejected(SyntaxError)
     ELSE IF ~Ok(res)
          THEN LET t == lib_throwError(MsgFetching, <<res>>)
               IN [outcome |-> Threw(t.error), log |-> t.log \o CatchLine(t.error)]
          ELSE fetcher_body(debug, res, parsed.value)

\* faulty variant: the subscription header is tested before res.json()
fetcher_settle_headerFirst(debug, res) ==
  IF res.subscription = "inactive"
  THEN fetcher_body(debug, res, NoValue)
  ELSE LET parsed == ResJson(res)
       IN IF ~parsed.ok THEN fetcher_rejected(SyntaxError)
          ELSE fetcher_body(debug, res, parsed.value)

\* faulty variant: a rejection of res.json() is swallowed and nothing is returned
fetcher_settle_swallow(debug, res) ==
  LET parsed == ResJson(res)
  IN IF ~parsed.ok THEN [outcome |-> Returned(NoValue), log |-> <<>>]
     ELSE fetcher_body(debug, res, parsed.value)

\* _fetch from `await res.json()` to its return or throw
fetcher_settle(debug, res) ==
  LET parsed == ResJson(res)
  IN IF ~parsed.ok THEN fetcher_rejected(SyntaxError)
     ELSE fetcher_body(debug, res, parsed.value)

\* posts.list / posts.get after the fetcher: logger(label, value); return value
posts_return(debug, label, f) ==
  IF f.outcome.kind = "threw" THEN f
  ELSE [outcome |-> f.outcome,
        log |-> f.log \o createLogger(debug, <<label, f.outcome.value>>)]

\* the options posts.list and posts.get hand to the fetcher
ListOpts(cache) == [method |-> "GET", cache |-> OrElse(cache, "default")]

----------------------------------------------------------------------------
(* Management client: createZenblogClient *)

\* a client: none before the factory is called, threw when the factory threw
\* (no client object exists), ready when it returned one; given is the
\* accessToken or blogId the factory was called with
NoClient ==
  [status |-> "none", given |-> "", api |-> "", accessToken |-> "", blogId |-> "",
   debug |-> FALSE, error |-> NoError, log |-> <<>>]

ThrewClient(t) ==
  [NoClient EXCEPT !.status = "threw", !.error = t.error, !.log = t.log]

\* faulty variant: no window check
createZenblogClient_noWindowCheck(win, accessToken, url, debug) ==
  IF Falsy(accessToken) THEN ThrewClient(lib_throwError(MsgToken, <<>>))
  ELSE [NoClient EXCEPT !.status = "ready",
                        !.api = OrElse(url, "https://api.zenblog.com"),
                        !.accessToken = accessToken,
                        !.debug = DebugOn(debug)]

\* faulty variant: no access token check
createZenblogClient_noTokenCheck(win, accessToken, url, debug) ==
  IF win # Undefined THEN ThrewClient(lib_throwError(MsgBrowser, <<>>))
  ELSE [NoClient EXCEPT !.status = "ready",
                        !.api = OrElse(url, "https://api.zenblog.com"),
                        !.accessToken = accessToken,
                        !.debug = DebugOn(debug)]

\* createZenblogClient({accessToken, _url, _debug}) with the global `window`
createZenblogClient(win, accessToken, url, debug) ==
  IF win # Undefined THEN ThrewClient(lib_throwError(MsgBrowser, <<>>))
  ELSE IF Falsy(accessToken) THEN ThrewClient(lib_throwError(MsgToken, <<>>))
  ELSE [NoClient EXCEPT !.status = "ready",
                        !.api = OrElse(url, "https://api.zenblog.com"),
                        !.accessToken = accessToken,
                        !.debug = DebugOn(debug)]

----------------------------------------------------------------------------
(* Public client: createClient *)

\* getConfig(url)
getConfig(url) == IF ~Falsy(url) THEN url ELSE "https://zenblog.com/api/public"

\* faulty variant: no blogId check
createClient_noBlogIdCheck(blogId, url, debug) ==
  [NoClient EXCEPT !.status = "ready", !.api = getConfig(url), !.blogId = blogId,
                   !.debug = DebugOn(debug),
                   !.log = createDebugger(DebugOn(debug), <<"createClient ", getConfig(url)>>)]

\* createClient({blogId, _url, debug})
createClient(blogId, url, debug) ==
  LET api == getConfig(url)
      l == createDebugger(DebugOn(debug), <<"createClient ", api>>)
  IN IF Falsy(blogId)
     THEN LET t == throwError(MsgBlogId, <<>>)
          IN [NoClient EXCEPT !.status = "threw", !.error = t.error, !.log = l \o t.log]
     ELSE [NoClient EXCEPT !.status = "ready", !.api = api, !.blogId = blogId,
                           !.debug = DebugOn(debug), !.log = l]

\* _fetch up to fetch(URL, opts): the options go out as given
client_request(config, path, opts) ==
  [url |-> <<config.api, config.blogId>> \o path, opts |-> opts]

\* log("fetching ", URL, opts)
client_requestLog(debug, req) == createDebugger(debug, <<"fetching ", req.url, req.opts>>)

\* fetch() or res.json() rejected: nothing catches it
client_rejected(e) == [outcome |-> Threw(e), log |-> <<>>]

\* faulty variant: a 404 is special-cased and returns nothing
client_settle_null404(debug, res) ==
  LET parsed == ResJson(res)
  IN IF ~parsed.ok THEN client_rejected(SyntaxError)
     ELSE LET l == createDebugger(debug, <<"res", ResLine(res, parsed.value)>>)
          IN IF res.status = 404 THEN [outcome |-> Returned(NoValue), log |-> l]
             ELSE IF ~Ok(res)
             THEN LET t == throwError(MsgFetching, <<res>>)
                  IN [outcome |-> Threw(t.error), log |-> l \o t.log]
             ELSE [outcome |-> Returned(parsed.value), log |-> l]

\* faulty variant: the response is logged after the res.ok test
client_settle_logAfterCheck(debug, res) ==
  LET parsed == ResJson(res)
  IN IF ~parsed.ok THEN client_rejected(SyntaxError)
     ELSE IF ~Ok(res)
          THEN LET t == throwError(MsgFetching, <<res>>)
               IN [outcome |-> Threw(t.error), log |-> t.log]
          ELSE [outcome |-> Returned(parsed.value),
                log |-> createDebugger(debug, <<"res", ResLine(res, parsed.value)>>)]

\* faulty variant: with debug on, the value is returned once it is logged
client_settle_debugReturns(debug, res) ==
  LET parsed == ResJson(res)
  IN IF ~parsed.ok THEN client_rejected(SyntaxError)
     ELSE LET l == createDebugger(debug, <<"res", ResLine(res, parsed.value)>>)
          IN IF debug THEN [outcome |-> Returned(parsed.value), log |-> l]
             ELSE IF ~Ok(res)
             THEN LET t == throwError(MsgFetching, <<res>>)
                  IN [outcome |-> Threw(t.error), log |-> l \o t.log]
             ELSE [outcome |-> Returned(parsed.value), log |-> l]

\* _fetch from `await res.json()` to its return or throw
client_settle(debug, res) ==
  LET parsed == ResJson(res)
  IN IF ~parsed.ok THEN client_rejected(SyntaxError)
     ELSE LET l == createDebugger(debug, <<"res", ResLine(res, parsed.value)>>)
          IN IF ~Ok(res)
             THEN LET t == throwError(MsgFetching, <<res>>)
                  IN [outcome |-> Threw(t.error), log |-> l \o t.log]
             ELSE [outcome |-> Returned(parsed.value), log |-> l]

\* faulty variant: the whole server post is kept
normalizePost_keepAll(post) ==
  Spread(post, [cover_image |-> IF "cover_image" \in DOMAIN post
                                THEN post.cover_image ELSE Undefined])

\* faulty variant: created_at is copied into updated_at
normalizePost_wrongDate(post) ==
  [slug |-> post.slug, title |-> post.title,
   created_at |-> post.created_at, updated_at |-> post.created_at,
   cover_image |-> IF "cover_image" \in DOMAIN post THEN post.cover_image ELSE Undefined]

\* the Post shape getAll keeps of one server post; a missing cover_image
\* reads as undefined
normalizePost(post) ==
  [slug |-> post.slug, title |-> post.title,
   created_at |-> post.created_at, updated_at |-> post.updated_at,
   cover_image |-> IF "cover_image" \in DOMAIN post THEN post.cover_image ELSE Undefined]

\* posts.getAll after _fetch: log, then posts.map(normalize)
getAll_return(debug, f) ==
  IF f.outcome.kind = "threw" THEN f
  ELSE LET posts == f.outcome.value
           l == f.log \o createDebugger(debug, <<"posts.getAll", posts>>)
       IN IF posts.type = "array"
          THEN [outcome |-> Returned(JsonArray(
                              [i \in 1..Len(posts.items) |-> normalizePost(posts.items[i])])),
                log |-> l]
          ELSE [outcome |-> Threw(MapTypeError), log |-> l]

\* the options getAll and getBySlug hand to _fetch
PublicOpts == [method |-> "GET", headers |-> ("Content-Type" :> "application/json")]

----------------------------------------------------------------------------
(* Image routes: the data of POST /blogs/:blog_id/images and                *)
(* DELETE /blogs/:blog_id/images/:file_name                                 *)

ReqIds == 1..MaxRequests

\* supabase.auth.getUser(): a user, or none
NoUser == "none"
Users == {"u1", "u2"}

\* the blogs table: blog id -> user_id
BlogOwner == [b1 |-> "u1", b2 |-> "u2"]

\* faulty variant: any user passes once the blog exists
getBlogOwnership_anyUser(blogId, userId, lookupError) ==
  IF lookupError \/ blogId \notin DOMAIN BlogOwner THEN FALSE ELSE TRUE

\* getBlogOwnership(blogId, userId): false when the lookup errors or finds no
\* row, else whether the row's user_id is the user's id
getBlogOwnership(blogId, userId, lookupError) ==
  IF lookupError \/ blogId \notin DOMAIN BlogOwner
  THEN FALSE
  ELSE BlogOwner[blogId] = userId

\* the handlers' check of the user and of the ownership
IsAuthorized(user, blogId, lookupError) ==
  IF user = NoUser THEN FALSE ELSE getBlogOwnership(blogId, user, lookupError)

\* toLowerCase() on the characters used
LowerChar(ch) == CASE ch = "C" -> "c" [] OTHER -> ch

AlnumChars == {"a", "c", "t", "1"}

\* .replace(/-+/g, "-"): runs of hyphens become one hyphen
RECURSIVE CollapseHyphens(_)
CollapseHyphens(str) ==
  IF Len(str) < 2 THEN str
  ELSE IF str[1] = "-" /\ str[2] = "-" THEN CollapseHyphens(Tail(str))
  ELSE <<str[1]>> \o CollapseHyphens(Tail(str))

\* .replace(/^-|-$/g, ""): a leading hyphen and a trailing hyphen are removed
TrimHyphens(str) ==
  LET a == IF Len(str) > 0 /\ str[1] = "-" THEN Tail(str) ELSE str
  IN IF Len(a) > 0 /\ a[Len(a)] = "-" THEN SubSeq(a, 1, Len(a) - 1) ELSE a

\* baseName: the provided name lower-cased, non-alphanumerics replaced by
\* hyphens, hyphens collapsed and trimmed; "image" when no name is provided
BaseName(providedName) ==
  IF providedName = <<>> THEN <<"i", "m", "a", "g", "e">>
  ELSE TrimHyphens(CollapseHyphens(
         [i \in 1..Len(providedName) |->
            IF LowerChar(providedName[i]) \in AlnumChars
            THEN LowerChar(providedName[i]) ELSE "-"]))

\* Date.now().toString().slice(-6): the last six digits
Timestamp(now) == now % 1000000

\* fileName: baseName, "-", timestamp, ".", extension
FileName(providedName, now, convertToWebp) ==
  [base |-> BaseName(providedName), stamp |-> Timestamp(now),
   ext |-> IF convertToWebp THEN "webp" ELSE "jpg"]

\* the uploads tried: no name, and two names at two times that give one file
\* name
UploadInputs ==
  { [name |-> <<>>, now |-> 1000123, webp |-> FALSE],
    [name |-> <<"C", "a", "t", " ", "1">>, now |-> 1000123, webp |-> TRUE],
    [name |-> <<"c", "a", "t", "-", "-", "1", "!">>, now |-> 2000123, webp |-> TRUE] }

\* file names a DELETE path may name
FileNames == { FileName(i.name, i.now, i.webp) : i \in UploadInputs }

\* who asks for which blog: no user; the two owners; a user who is not the
\* owner; a blog that does not exist; an ownership lookup that errors
AuthCases ==
  { [user |-> NoUser, blog |-> "b1", lookupError |-> FALSE],
    [user |-> "u1", blog |-> "b1", lookupError |-> FALSE],
    [user |-> "u2", blog |-> "b2", lookupError |-> FALSE],
    [user |-> "u2", blog |-> "b1", lookupError |-> FALSE],
    [user |-> "u1", blog |-> "b9", lookupError |-> FALSE],
    [user |-> "u1", blog |-> "b1", lookupError |-> TRUE] }

NoFile == [base |-> <<>>, stamp |-> 0, ext |-> ""]

\* "https://" + R2_PUBLIC_DOMAIN of the deployment
PublicBaseUrl == "https://images.example"
\* values of R2_BASE_URL: the same address, or another one
R2BaseUrls == {"https://images.example", "https://r2.example"}

\* the file_url of an inserted row and the file_url a delete matches
PublicUrl(fileName) == [base |-> PublicBaseUrl, file |-> fileName]
DeleteUrl(baseUrl, fileName) == [base |-> baseUrl, file |-> fileName]

\* the row the upload inserts into blog_images (id: the row's identity)
ImageRow(id, blogId, fileName) ==
  [id |-> id, blog_id |-> blogId, file_name |-> fileName, file_url |-> PublicUrl(fileName)]

IdleReq ==
  [kind |-> "none", pc |-> "idle", user |-> NoUser, blog |-> "", lookupError |-> FALSE,
   fileName |-> NoFile, status |-> 0]

ImagesIdle ==
  /\ storage = {}
  /\ blog_images = {}
  /\ reqs = [r \in ReqIds |-> IdleReq]

----------------------------------------------------------------------------
(* State *)

NoOpts == [k \in {} |-> ""]

IdleCall ==
  [pc |-> "idle", client |-> "none", op |-> "none", opts |-> NoOpts,
   res |-> NoResponse, outcome |-> Pending]

Init ==
  /\ window \in Windows
  /\ mgmt = NoClient
  /\ pub = NoClient
  /\ calls = [c \in CallIds |-> IdleCall]
  /\ sent = [c \in CallIds |-> <<>>]
  /\ console = [c \in CallIds |-> <<>>]
  /\ ImagesIdle
  /\ r2BaseUrl = PublicBaseUrl

\* call slots are used in order: the ids only name the calls
CanStart(c) ==
  /\ calls[c].pc = "idle"
  /\ IF c = 1 THEN TRUE ELSE calls[c - 1].pc # "idle"

\* the state of a call that has just handed req to fetch(); opts are the
\* options its method gave to _fetch
Started(c, client, op, opts, req, line) ==
  /\ calls' = [calls EXCEPT ![c] = [IdleCall EXCEPT !.pc = "awaitFetch",
                                                    !.client = client, !.op = op,
                                                    !.opts = opts]]
  /\ sent' = [sent EXCEPT ![c] = Append(@, req)]
  /\ console' = [console EXCEPT ![c] = @ \o line]

\* the state of a call that has returned or thrown
Finished(c, r) ==
  /\ calls' = [calls EXCEPT ![c].pc = "done", ![c].outcome = r.outcome]
  /\ console' = [console EXCEPT ![c] = @ \o r.log]

----------------------------------------------------------------------------
(* Operations *)

CreateZenblogClient(accessToken, url, debug) ==
  /\ mgmt.status = "none"
  /\ mgmt' = [createZenblogClient(window, accessToken, url, debug)
                EXCEPT !.given = accessToken]
  /\ UNCHANGED <<imageVars, window, pub, calls, sent, console>>

CreateClient(blogId, url, debug) ==
  /\ pub.status = "none"
  /\ pub' = [createClient(blogId, url, debug) EXCEPT !.given = blogId]
  /\ UNCHANGED <<imageVars, window, mgmt, calls, sent, console>>

\* client.posts.list(opts) of the management client
PostsList(c, cache) ==
  /\ mgmt.status = "ready"
  /\ CanStart(c)
  /\ LET req == fetcher_request(mgmt, <<"posts">>, ListOpts(cache))
     IN Started(c, "mgmt", "list", ListOpts(cache), req, fetcher_requestLog(mgmt.debug, req))
  /\ UNCHANGED <<imageVars, window, mgmt, pub>>

\* client.posts.get({slug}, opts) of the management client
PostsGet(c, slug, cache) ==
  /\ mgmt.status = "ready"
  /\ CanStart(c)
  /\ LET req == fetcher_request(mgmt, <<"post", slug>>, ListOpts(cache))
     IN Started(c, "mgmt", "get", ListOpts(cache), req, fetcher_requestLog(mgmt.debug, req))
  /\ UNCHANGED <<imageVars, window, mgmt, pub>>

\* client.posts.getAll() of the public client
PostsGetAll(c) ==
  /\ pub.status = "ready"
  /\ CanStart(c)
  /\ LET req == client_request(pub, <<"posts">>, PublicOpts)
     IN Started(c, "pub", "getAll", PublicOpts, req, client_requestLog(pub.debug, req))
  /\ UNCHANGED <<imageVars, window, mgmt, pub>>

\* client.posts.getBySlug(slug) of the public client
PostsGetBySlug(c, slug) ==
  /\ pub.status = "ready"
  /\ CanStart(c)
  /\ LET req == client_request(pub, <<"post", slug>>, PublicOpts)
     IN Started(c, "pub", "getBySlug", PublicOpts, req, client_requestLog(pub.debug, req))
  /\ UNCHANGED <<imageVars, window, mgmt, pub>>

\* the fetcher called on its own: _fetch(path, opts) with any options
FetcherCall(c, path, opts) ==
  /\ mgmt.status = "ready"
  /\ CanStart(c)
  /\ LET req == fetcher_request(mgmt, path, opts)
     IN Started(c, "mgmt", "fetch", opts, req, fetcher_requestLog(mgmt.debug, req))
  /\ UNCHANGED <<imageVars, window, mgmt, pub>>

\* `await fetch(...)` resolves with a response; the code calls res.json()
FetchResolve(c, res) ==
  /\ calls[c].pc = "awaitFetch"
  /\ calls' = [calls EXCEPT ![c].pc = "awaitJson", ![c].res = res]
  /\ UNCHANGED <<imageVars, window, mgmt, pub, sent, console>>

\* faulty variant: a network failure sends the request again
FetchReject_retry(c) ==
  /\ calls[c].pc = "awaitFetch"
  /\ Len(sent[c]) < 2
  /\ sent' = [sent EXCEPT ![c] = Append(@, sent[c][1])]
  /\ UNCHANGED <<imageVars, window, mgmt, pub, calls, console>>

\* `await fetch(...)` rejects: a network failure
FetchReject(c) ==
  /\ calls[c].pc = "awaitFetch"
  /\ Finished(c, IF calls[c].client = "mgmt"
                 THEN fetcher_rejected(NetworkError)
                 ELSE client_rejected(NetworkError))
  /\ UNCHANGED <<imageVars, window, mgmt, pub, sent>>

\* what a call does once res.json() has settled, by the method that made it,
\* for the debug flags of the two clients
SettleWith(call, mdebug, pdebug) ==
  CASE call.op = "list" ->
         posts_return(mdebug, "posts.getAll", fetcher_settle(mdebug, call.res))
    [] call.op = "get" ->
         posts_return(mdebug, "posts.getBySlug", fetcher_settle(mdebug, call.res))
    [] call.op = "fetch" -> fetcher_settle(mdebug, call.res)
    [] call.op = "getAll" -> getAll_return(pdebug, client_settle(pdebug, call.res))
    [] OTHER -> client_settle(pdebug, call.res)

SettleResult(call) == SettleWith(call, mgmt.debug, pub.debug)

\* faulty variant: the response is kept in one slot shared by the calls, so a
\* call settles with the response of the first call
JsonSettle_sharedResponse(c) ==
  /\ calls[c].pc = "awaitJson"
  /\ Finished(c, SettleResult([calls[c] EXCEPT !.res = calls[1].res]))
  /\ UNCHANGED <<imageVars, window, mgmt, pub, sent>>

\* `await res.json()` settles and the call runs to its return or throw
JsonSettle(c) ==
  /\ calls[c].pc = "awaitJson"
  /\ Finished(c, SettleResult(calls[c]))
  /\ UNCHANGED <<imageVars, window, mgmt, pub, sent>>

Next ==
  \/ \E t \in AccessTokens, u \in UrlOpts, d \in DebugOpts : CreateZenblogClient(t, u, d)
  \/ \E b \in BlogIds, u \in UrlOpts, d \in DebugOpts : CreateClient(b, u, d)
  \/ \E c \in CallIds, k \in CacheOpts : PostsList(c, k)
  \/ \E c \in CallIds, s \in Slugs, k \in CacheOpts : PostsGet(c, s, k)
  \/ \E c \in CallIds : PostsGetAll(c)
  \/ \E c \in CallIds, s \in Slugs : PostsGetBySlug(c, s)
  \/ \E c \in CallIds, r \in Responses : FetchResolve(c, r)
  \/ \E c \in CallIds : FetchReject(c)
  \/ \E c \in CallIds : JsonSettle(c)

Spec == Init /\ [][Next]_vars

----------------------------------------------------------------------------
(* The fetcher alone, under any per-call options *)

Paths == {<<"posts">>, <<"post", "hello">>}

FetcherOpts ==
  { [method |-> "GET", cache |-> "no-store"],
    [method |-> "GET", headers |-> NoHeaders],
    [method |-> "POST", body |-> "{}", headers |-> ("x-trace" :> "1")],
    [method |-> "GET", headers |-> [authorization |-> <<"Bearer ", "other">>]],
    [method |-> "GET", headers |-> ("Content-Type" :> "text/plain")],
    [method |-> "GET", cache |-> "reload",
     headers |-> [authorization |-> <<"Basic ", "user">>]
                   @@ ("Content-Type" :> "text/plain") @@ ("x-trace" :> "2")] }

NextFetcher ==
  \/ \E t \in AccessTokens, u \in UrlOpts, d \in DebugOpts : CreateZenblogClient(t, u, d)
  \/ \E c \in CallIds, p \in Paths, o \in FetcherOpts : FetcherCall(c, p, o)
  \/ \E c \in CallIds, r \in Responses : FetchResolve(c, r)
  \/ \E c \in CallIds : FetchReject(c)
  \/ \E c \in CallIds : JsonSettle(c)

SpecFetcher == Init /\ [][NextFetcher]_vars

----------------------------------------------------------------------------
(* Vocabulary of the properties *)

\* the call has returned or thrown after a response arrived
Answered(c) == calls[c].pc = "done" /\ calls[c].res \in Responses

\* the call ended because fetch() itself rejected
NetworkFailed(c) == calls[c].pc = "done" /\ calls[c].res = NoResponse

ThrewMatching(c, text) ==
  /\ calls[c].outcome.kind = "threw"
  /\ calls[c].outcome.value = NoValue
  /\ Matches(calls[c].outcome.error.message, text)

\* some console line of the call is an error line with these arguments
ErrorLogged(lines, args) ==
  \E i \in 1..Len(lines) :
     /\ lines[i].level = "error"
     /\ lines[i].prefix = LogPrefix
     /\ lines[i].args = args

\* some console line of the call is the debug line of a received response
ResponseLogged(lines) ==
  \E i \in 1..Len(lines) : lines[i].level = "log" /\ lines[i].args[1] = "res"

----------------------------------------------------------------------------
(* C1 *)

\* C1 as claimed: every management call answered with the inactive
\* subscription header, whatever the status, throws the subscription error.
C1_Original ==
  \A c \in CallIds :
     (Answered(c) /\ calls[c].client = "mgmt" /\ calls[c].res.subscription = "inactive")
        => ThrewMatching(c, MsgInactive)

\* C1: a management call answered with the inactive subscription header and a
\* body that parses as JSON throws the subscription error and returns no
\* value, whatever the status; on a non-2xx status the subscription error
\* wins over the generic one.
C1_InactiveWithJsonBody ==
  \A c \in CallIds :
     (/\ Answered(c)
      /\ calls[c].client = "mgmt"
      /\ calls[c].res.subscription = "inactive"
      /\ ResJson(calls[c].res).ok)
        => /\ ThrewMatching(c, MsgInactive)
           /\ ~Matches(calls[c].outcome.error.message, MsgFetching)

C1_Witness ==
  \E c \in CallIds :
     /\ Answered(c)
     /\ calls[c].client = "mgmt"
     /\ calls[c].res.subscription = "inactive"
     /\ calls[c].res.status = 200
     /\ ResJson(calls[c].res).ok
     /\ ThrewMatching(c, MsgInactive)

----------------------------------------------------------------------------
(* C2 *)

\* C2: when the global window is defined, createZenblogClient throws the
\* browser error for every access token, returns no client, and no
\* management request is ever sent.
C2_BrowserGuard ==
  window # Undefined =>
     /\ mgmt.status \in {"none", "threw"}
     /\ mgmt.status = "threw" =>
          /\ mgmt.error.name = "Error"
          /\ Matches(mgmt.error.message, MsgBrowser)
     /\ \A c \in CallIds : calls[c].client = "mgmt" => sent[c] = <<>>
     /\ \A c \in CallIds : calls[c].client # "mgmt"

C2_Witness ==
  /\ window # Undefined
  /\ mgmt.status = "threw"
  /\ mgmt.given = "tok"
  /\ Matches(mgmt.error.message, MsgBrowser)

----------------------------------------------------------------------------
(* C3 *)

\* C3: createZenblogClient called with an empty access token throws a
\* configuration error and returns no client, so no management call runs
\* and no management request is sent.
C3_TokenRequired ==
  (mgmt.status # "none" /\ mgmt.given = "") =>
     /\ mgmt.status = "threw"
     /\ mgmt.error.name = "Error"
     /\ Matches(mgmt.error.message, IF window # Undefined THEN MsgBrowser ELSE MsgToken)
     /\ \A c \in CallIds : calls[c].client # "mgmt"

C3_Witness ==
  /\ window = Undefined
  /\ mgmt.given = ""
  /\ mgmt.status = "threw"
  /\ Matches(mgmt.error.message, MsgToken)

----------------------------------------------------------------------------
(* C4 *)

\* C4: createClient called with an empty blogId throws and returns no client,
\* and no request whose URL has an empty blog segment is ever sent.
C4_BlogIdRequired ==
  /\ (pub.status # "none" /\ pub.given = "") =>
        /\ pub.status = "threw"
        /\ Matches(pub.error.message, MsgBlogId)
        /\ \A c \in CallIds : calls[c].client # "pub"
  /\ \A c \in CallIds :
        calls[c].client = "pub" =>
           \A i \in 1..Len(sent[c]) : sent[c][i].url[2] # ""

C4_Witness ==
  /\ pub.given = ""
  /\ pub.status = "threw"
  /\ Matches(pub.error.message, MsgBlogId)

----------------------------------------------------------------------------
(* C5 *)

\* C5 as claimed: every call of either client answered with a non-2xx status
\* throws an error whose message matches "Error fetching data from API".
C5_Original ==
  \A c \in CallIds :
     (Answered(c) /\ ~Ok(calls[c].res)) => ThrewMatching(c, MsgFetching)

\* C5: a call of either client answered with a non-2xx status (404 like any
\* other) throws and returns no value; the error is the JSON parse error
\* when the body is not JSON, else the subscription error when a management
\* response carries the inactive header, else the error matching
\* "Error fetching data from API".
C5_NonOkThrows ==
  \A c \in CallIds :
     (Answered(c) /\ ~Ok(calls[c].res)) =>
        /\ calls[c].outcome.kind = "threw"
        /\ calls[c].outcome.value = NoValue
        /\ IF ~ResJson(calls[c].res).ok
           THEN calls[c].outcome.error = SyntaxError
           ELSE IF calls[c].client = "mgmt" /\ calls[c].res.subscription = "inactive"
           THEN ThrewMatching(c, MsgInactive)
           ELSE ThrewMatching(c, MsgFetching)

C5_Witness ==
  \E c \in CallIds :
     /\ Answered(c)
     /\ calls[c].op = "getBySlug"
     /\ calls[c].res.status = 404
     /\ ResJson(calls[c].res).ok
     /\ ThrewMatching(c, MsgFetching)

----------------------------------------------------------------------------
(* C6 *)

\* C6: a call of either client answered with status 200 and a body that is
\* not valid JSON throws the parse error; it never returns a value.
C6_MalformedBodyThrows ==
  \A c \in CallIds :
     (Answered(c) /\ calls[c].res.status = 200 /\ ~ResJson(calls[c].res).ok) =>
        /\ calls[c].outcome.kind = "threw"
        /\ calls[c].outcome.value = NoValue
        /\ calls[c].outcome.error = SyntaxError

C6_Witness ==
  \E c \in CallIds :
     /\ Answered(c)
     /\ calls[c].client = "mgmt"
     /\ calls[c].res.status = 200
     /\ calls[c].res.body = "<html>"
     /\ calls[c].outcome.kind = "threw"

----------------------------------------------------------------------------
(* C7 *)

\* the public calls that ended in throwError("Error fetching data from API", res)
ThrewOnStatus(c) ==
  /\ Answered(c)
  /\ calls[c].client = "pub"
  /\ calls[c].outcome.kind = "threw"
  /\ calls[c].outcome.error.name = "Error"

\* C7 as claimed: the error throwError throws for a non-2xx response carries
\* the response object that was passed to the helper.
C7_Original ==
  \A c \in CallIds :
     ThrewOnStatus(c) => calls[c].outcome.error.extra = <<calls[c].res>>

\* C7: the error throwError throws is a plain Error whose message is the
\* fixed prefix followed by the human-readable string and which carries
\* nothing else; the response passed to the helper is written to the error
\* log before the throw.
C7_MessageOnly ==
  /\ \A c \in CallIds :
        ThrewOnStatus(c) =>
           /\ calls[c].outcome.error.message = <<ErrorPrefix, MsgFetching>>
           /\ calls[c].outcome.error.extra = <<>>
           /\ ErrorLogged(console[c], <<MsgFetching, calls[c].res>>)
  /\ pub.status = "threw" =>
        /\ pub.error.message = <<ErrorPrefix, MsgBlogId>>
        /\ pub.error.extra = <<>>
        /\ ErrorLogged(pub.log, <<MsgBlogId>>)

C7_Witness ==
  \E c \in CallIds :
     /\ ThrewOnStatus(c)
     /\ calls[c].res.status = 404
     /\ calls[c].outcome.error.extra = <<>>
     /\ ErrorLogged(console[c], <<MsgFetching, calls[c].res>>)

----------------------------------------------------------------------------
(* C8 *)

\* C8: a call sends exactly one request: none before it starts, one from then
\* on, also after a response, a network failure or a parse failure; and a
\* call that failed (network failure, non-2xx status, body not JSON) has
\* thrown.
C8_OneRequestPerCall ==
  \A c \in CallIds :
     /\ Len(sent[c]) = IF calls[c].pc = "idle" THEN 0 ELSE 1
     /\ NetworkFailed(c) => calls[c].outcome = Threw(NetworkError)
     /\ (Answered(c) /\ (~Ok(calls[c].res) \/ ~ResJson(calls[c].res).ok)) =>
           calls[c].outcome.kind = "threw"
     /\ calls[c].pc = "done" => calls[c].outcome.kind \in {"returned", "threw"}

C8_Witness ==
  \E c \in CallIds :
     /\ NetworkFailed(c)
     /\ Len(sent[c]) = 1
     /\ calls[c].outcome.kind = "threw"

----------------------------------------------------------------------------
(* C9 *)

\* C9 as claimed: for a management response carrying the inactive header the
\* outcome is the subscription error whatever the body is; no parse failure
\* comes ahead of the header check.
C9_Original ==
  \A c \in CallIds :
     (Answered(c) /\ calls[c].client = "mgmt" /\ calls[c].res.subscription = "inactive")
        => /\ calls[c].outcome.error # SyntaxError
           /\ Matches(calls[c].outcome.error.message, MsgInactive)

\* C9: the management _fetch parses the body before it looks at the
\* subscription header: for a response carrying the inactive header the call
\* throws the parse error when the body is not JSON, and otherwise the
\* subscription error, raised before the response is logged and before the
\* status is looked at.
C9_ParseThenHeader ==
  \A c \in CallIds :
     (Answered(c) /\ calls[c].client = "mgmt" /\ calls[c].res.subscription = "inactive")
        => IF ResJson(calls[c].res).ok
           THEN /\ ThrewMatching(c, MsgInactive)
                /\ ~ResponseLogged(console[c])
           ELSE calls[c].outcome = Threw(SyntaxError)

C9_Witness ==
  \E c \in CallIds :
     /\ Answered(c)
     /\ calls[c].client = "mgmt"
     /\ calls[c].res.subscription = "inactive"
     /\ calls[c].res.body = "<html>"
     /\ calls[c].outcome = Threw(SyntaxError)

----------------------------------------------------------------------------
(* C10 *)

\* C10: the request of a management call has the per-call options with only
\* the headers replaced; its headers are the per-call headers plus
\* authorization 'Bearer {accessToken}' and Content-Type application/json
\* for the keys the per-call headers do not have.
C10_HeadersMerged ==
  \A c \in CallIds :
     (calls[c].client = "mgmt" /\ calls[c].pc # "idle") =>
        LET given == calls[c].opts
            own == HeadersOf(given)
            out == sent[c][1].opts
        IN /\ DOMAIN out = (DOMAIN given) \cup {"headers"}
           /\ \A k \in (DOMAIN given) \ {"headers"} : out[k] = given[k]
           /\ DOMAIN out.headers = (DOMAIN own) \cup {"authorization", "Content-Type"}
           /\ \A k \in DOMAIN own : out.headers[k] = own[k]
           /\ "authorization" \notin DOMAIN own =>
                 out.headers["authorization"] = <<"Bearer ", mgmt.accessToken>>
           /\ "Content-Type" \notin DOMAIN own =>
                 out.headers["Content-Type"] = "application/json"

C10_Witness ==
  \E c \in CallIds :
     /\ calls[c].client = "mgmt"
     /\ calls[c].pc # "idle"
     /\ "x-trace" \in DOMAIN HeadersOf(calls[c].opts)
     /\ "authorization" \in DOMAIN HeadersOf(calls[c].opts)
     /\ sent[c][1].opts.headers["authorization"] = <<"Basic ", "user">>
     /\ sent[c][1].opts.headers["x-trace"] = "2"
     /\ sent[c][1].opts.cache = "reload"

----------------------------------------------------------------------------
(* The list methods, under arrays of valid posts *)

ListResponses == [status : {200}, subscription : {Null, "active"}, body : ListBodies]

NextList ==
  \/ \E t \in AccessTokens, u \in UrlOpts, d \in DebugOpts : CreateZenblogClient(t, u, d)
  \/ \E b \in BlogIds, u \in UrlOpts, d \in DebugOpts : CreateClient(b, u, d)
  \/ \E c \in CallIds, k \in CacheOpts : PostsList(c, k)
  \/ \E c \in CallIds : PostsGetAll(c)
  \/ \E c \in CallIds, r \in ListResponses : FetchResolve(c, r)
  \/ \E c \in CallIds : JsonSettle(c)

SpecList == Init /\ [][NextList]_vars

\* post.cover_image: undefined when the post has no such field
CoverOf(post) == IF "cover_image" \in DOMAIN post THEN post.cover_image ELSE Undefined

\* a list call that ended after the server answered with an array of valid posts
Listed(c) ==
  /\ calls[c].pc = "done"
  /\ calls[c].op \in {"list", "getAll"}
  /\ calls[c].res \in ListResponses

ServerItems(c) == ListBodyItems[calls[c].res.body]

----------------------------------------------------------------------------
(* C11 *)

\* C11: list and getAll return as many posts as the server's array has, in the
\* server's order, each with the server's slug, title, created_at and
\* updated_at, and with the server's cover_image or undefined when the
\* server's post has none.
C11_ListPreserves ==
  \A c \in CallIds :
     Listed(c) =>
        /\ calls[c].outcome.kind = "returned"
        /\ calls[c].outcome.value.type = "array"
        /\ Len(calls[c].outcome.value.items) = Len(ServerItems(c))
        /\ \A i \in 1..Len(ServerItems(c)) :
              LET got == calls[c].outcome.value.items[i]
                  srv == ServerItems(c)[i]
              IN /\ got.slug = srv.slug
                 /\ got.title = srv.title
                 /\ got.created_at = srv.created_at
                 /\ got.updated_at = srv.updated_at
                 /\ CoverOf(got) = CoverOf(srv)

C11_Witness ==
  \E c \in CallIds :
     /\ Listed(c)
     /\ calls[c].op = "getAll"
     /\ calls[c].res.body = "[d,c,b,a]"
     /\ Len(calls[c].outcome.value.items) = 4
     /\ calls[c].outcome.value.items[1].slug = "fourth"
     /\ calls[c].outcome.value.items[2].cover_image = Undefined
     /\ calls[c].outcome.value.items[4].slug = "first"

----------------------------------------------------------------------------
(* C12 *)

PostShape == {"slug", "title", "created_at", "updated_at", "cover_image"}

\* C12: getAll returns posts that have the five fields of the Post shape and
\* no other (content and any other extra field of the server's post are
\* dropped); list returns the server's elements themselves, extra fields
\* included.
C12_ListShaping ==
  \A c \in CallIds :
     Listed(c) =>
        IF calls[c].op = "getAll"
        THEN \A i \in 1..Len(calls[c].outcome.value.items) :
                DOMAIN calls[c].outcome.value.items[i] = PostShape
        ELSE calls[c].outcome.value = JsonArray(ServerItems(c))

C12_Witness ==
  \E c \in CallIds :
     /\ Listed(c)
     /\ calls[c].op = "getAll"
     /\ calls[c].res.body = "[a]"
     /\ "content" \in DOMAIN ServerItems(c)[1]
     /\ "content" \notin DOMAIN calls[c].outcome.value.items[1]

----------------------------------------------------------------------------
(* C13 *)

\* the paths a method may have given to _fetch
PathsOf(op) ==
  IF op \in {"list", "getAll"} THEN {<<"posts">>} ELSE {<<"post", s>> : s \in Slugs}

\* the request the call's client would have sent with its debug flag at d
RequestWith(c, path, d) ==
  IF calls[c].client = "mgmt"
  THEN fetcher_request([mgmt EXCEPT !.debug = d], path, calls[c].opts)
  ELSE client_request([pub EXCEPT !.debug = d], path, calls[c].opts)

\* C13: debug changes neither what a factory does (client or error), nor the
\* request of a call, nor its outcome: each is what the same code gives with
\* the debug flag on and with it off.
C13_DebugNeutral ==
  /\ mgmt.status # "none" =>
        \A d \in DebugOpts : \E u \in UrlOpts :
           LET k == createZenblogClient(window, mgmt.given, u, d)
           IN k.status = mgmt.status /\ k.error = mgmt.error /\ k.api = mgmt.api
  /\ pub.status # "none" =>
        \A d \in DebugOpts : \E u \in UrlOpts :
           LET k == createClient(pub.given, u, d)
           IN k.status = pub.status /\ k.error = pub.error /\ k.api = pub.api
  /\ \A c \in CallIds :
        calls[c].pc # "idle" =>
           \E path \in PathsOf(calls[c].op) : \A d \in BOOLEAN :
              sent[c] = <<RequestWith(c, path, d)>>
  /\ \A c \in CallIds :
        (calls[c].pc = "done" /\ calls[c].res # NoResponse) =>
           \A md, pd \in BOOLEAN :
              calls[c].outcome = SettleWith(calls[c], md, pd).outcome

C13_Witness ==
  \E c \in CallIds :
     /\ calls[c].pc = "done"
     /\ calls[c].client = "pub"
     /\ pub.debug
     /\ ~Ok(calls[c].res)
     /\ ResponseLogged(console[c])
     /\ calls[c].outcome = client_settle(FALSE, calls[c].res).outcome
     /\ console[c] # client_settle(FALSE, calls[c].res).log

----------------------------------------------------------------------------
(* C14 *)

DebugOf(c) == IF calls[c].client = "mgmt" THEN mgmt.debug ELSE pub.debug

\* the first console line of the call is the debug line of its request
RequestLogged(c) ==
  /\ Len(console[c]) >= 1
  /\ console[c][1].level = "log"
  /\ console[c][1].args[1] = IF calls[c].client = "mgmt" THEN "fetch " ELSE "fetching "
  /\ console[c][1].args[2] = sent[c][1].url
  /\ console[c][1].args[3] = sent[c][1].opts

\* the second console line of the call is the debug line of its response,
\* with the status, the ok flag and the parsed body
ResponseLoggedSecond(c) ==
  /\ Len(console[c]) >= 2
  /\ console[c][2].level = "log"
  /\ console[c][2].args = <<"res", ResLine(calls[c].res, ResJson(calls[c].res).value)>>

\* the response is one the code logs: its body is JSON and, for the management
\* client, it does not carry the inactive subscription header
LoggedKind(c) ==
  /\ ResJson(calls[c].res).ok
  /\ ~(calls[c].client = "mgmt" /\ calls[c].res.subscription = "inactive")

\* C14 as claimed: with debug on, every request sent is logged and every
\* response received is logged by the time the call has returned or thrown.
C14_Original ==
  \A c \in CallIds :
     DebugOf(c) =>
        /\ calls[c].pc # "idle" => RequestLogged(c)
        /\ Answered(c) => ResponseLogged(console[c])

\* C14: with debug on, the request of a call is logged (URL and options) when
\* it is sent; the response is logged (status, ok flag, parsed body) before
\* the call returns or throws, the non-2xx error included, exactly when its
\* body is JSON and, for the management client, it does not carry the
\* inactive subscription header; otherwise no response line is written.
\* With debug off no debug line is written.
C14_DebugLines ==
  \A c \in CallIds :
     /\ (DebugOf(c) /\ calls[c].pc # "idle") => RequestLogged(c)
     /\ (DebugOf(c) /\ Answered(c)) =>
           IF LoggedKind(c)
           THEN ResponseLoggedSecond(c)
           ELSE ~ResponseLogged(console[c])
     /\ ~DebugOf(c) => \A i \in 1..Len(console[c]) : console[c][i].level # "log"

C14_Witness ==
  \E c \in CallIds :
     /\ DebugOf(c)
     /\ Answered(c)
     /\ calls[c].client = "pub"
     /\ calls[c].res.status = 404
     /\ ResponseLoggedSecond(c)
     /\ ThrewMatching(c, MsgFetching)
     /\ Len(console[c]) = 3

----------------------------------------------------------------------------
(* Calls in flight together *)

ConcurrentIds == 1..MaxConcurrent

InitConcurrent ==
  /\ window \in Windows
  /\ mgmt = NoClient
  /\ pub = NoClient
  /\ calls = [c \in ConcurrentIds |-> IdleCall]
  /\ sent = [c \in ConcurrentIds |-> <<>>]
  /\ console = [c \in ConcurrentIds |-> <<>>]
  /\ ImagesIdle
  /\ r2BaseUrl = PublicBaseUrl

\* one response of each kind: a list, a missing post, an inactive
\* subscription, a body that is not JSON
ConcurrentResponses ==
  { [status |-> 200, subscription |-> Null, body |-> "[posts]"],
    [status |-> 404, subscription |-> Null, body |-> "{post}"],
    [status |-> 200, subscription |-> "inactive", body |-> "[posts]"],
    [status |-> 200, subscription |-> Null, body |-> "<html>"] }

NextConcurrent ==
  \/ \E d \in DebugOpts : CreateZenblogClient("tok", Undefined, d)
  \/ \E d \in DebugOpts : CreateClient("blog1", Undefined, d)
  \/ \E c \in ConcurrentIds, k \in CacheOpts : PostsList(c, k)
  \/ \E c \in ConcurrentIds, s \in Slugs, k \in CacheOpts : PostsGet(c, s, k)
  \/ \E c \in ConcurrentIds : PostsGetAll(c)
  \/ \E c \in ConcurrentIds, s \in Slugs : PostsGetBySlug(c, s)
  \/ \E c \in ConcurrentIds, r \in ConcurrentResponses : FetchResolve(c, r)
  \/ \E c \in ConcurrentIds : FetchReject(c)
  \/ \E c \in ConcurrentIds : JsonSettle(c)

SpecConcurrent == InitConcurrent /\ [][NextConcurrent]_vars

----------------------------------------------------------------------------
(* C15 *)

\* the request, the outcome and the console lines of call c are those its own
\* method gives for its own options and its own response
OwnResult(c) ==
  /\ calls[c].pc # "idle" =>
        \E path \in PathsOf(calls[c].op) :
           /\ sent[c] = <<RequestWith(c, path, DebugOf(c))>>
           /\ SubSeq(console[c], 1, Len(createDebugger(DebugOf(c), <<>>)))
                = createDebugger(DebugOf(c),
                    <<IF calls[c].client = "mgmt" THEN "fetch " ELSE "fetching ",
                      sent[c][1].url, sent[c][1].opts>>)
  /\ calls[c].pc \in {"awaitFetch", "awaitJson"} => calls[c].outcome = Pending
  /\ (calls[c].pc = "done" /\ calls[c].res # NoResponse) =>
        calls[c].outcome = SettleResult(calls[c]).outcome
  /\ (calls[c].pc = "done" /\ calls[c].res = NoResponse) =>
        calls[c].outcome = Threw(NetworkError)

\* a step leaves a constructed client as it is
ConfigKept ==
  /\ mgmt.status # "none" => mgmt' = mgmt
  /\ pub.status # "none" => pub' = pub

\* a step changes the record, requests and console lines of one call at most
OneCallTouched ==
  \A c, e \in ConcurrentIds :
     (c # e /\ calls'[c] # calls[c]) =>
        /\ calls'[e] = calls[e]
        /\ sent'[e] = sent[e]
        /\ console'[e] = console[e]

\* C15: under every interleaving of the calls in flight, a client's
\* configuration is never changed once constructed, a step of one call
\* leaves every other call untouched, and each call's request and outcome
\* are those of its own arguments and its own response.
C15_CallsIndependent ==
  /\ [](\A c \in ConcurrentIds : OwnResult(c))
  /\ [][ConfigKept /\ OneCallTouched]_vars

C15_Witness ==
  /\ calls[1].pc = "awaitJson"
  /\ calls[2].pc = "done"
  /\ calls[1].client = "mgmt"
  /\ calls[2].client = "mgmt"
  /\ calls[1].res.subscription = "inactive"
  /\ calls[2].res.subscription = Null
  /\ calls[2].op = "list"
  /\ calls[2].outcome = Returned(JsonArray(ServerPosts))

----------------------------------------------------------------------------
(* Image routes: the handlers, cut at the awaits that change shared state *)

\* request slots are used in order: the ids only name the requests
CanStartReq(r) ==
  /\ reqs[r].pc = "idle"
  /\ IF r = 1 THEN TRUE ELSE reqs[r - 1].pc # "idle"

Answer(r, status) == reqs' = [reqs EXCEPT ![r].pc = "done", ![r].status = status]

\* POST: from the start of the handler to the PutObjectCommand: the user and
\* ownership checks (401), the image processing (500 when it throws) and the
\* file name
UploadStart(r, user, blogId, lookupError, providedName, now, convertToWebp, imageOk) ==
  /\ CanStartReq(r)
  /\ reqs' = [reqs EXCEPT ![r] =
       [kind |-> "upload", user |-> user, blog |-> blogId, lookupError |-> lookupError,
        pc |-> IF IsAuthorized(user, blogId, lookupError) /\ imageOk THEN "put" ELSE "done",
        status |-> IF ~IsAuthorized(user, blogId, lookupError) THEN 401
                   ELSE IF ~imageOk THEN 500 ELSE 0,
        fileName |-> IF IsAuthorized(user, blogId, lookupError) /\ imageOk
                     THEN FileName(providedName, now, convertToWebp) ELSE NoFile]]
  /\ UNCHANGED <<sdkVars, storage, blog_images, r2BaseUrl>>

\* POST: r2.send(PutObjectCommand) settles: the object is stored under the
\* file name (replacing an object of that name), or the send fails (500)
UploadPut(r, ok) ==
  /\ reqs[r].pc = "put"
  /\ IF ok
     THEN /\ storage' = storage \cup {reqs[r].fileName}
          /\ reqs' = [reqs EXCEPT ![r].pc = "insert"]
     ELSE /\ storage' = storage
          /\ Answer(r, 500)
  /\ UNCHANGED <<sdkVars, blog_images, r2BaseUrl>>

\* POST: the insert into blog_images settles: the row is inserted and the
\* handler answers 200, or the insert errors and the handler goes on to
\* delete the object it uploaded
UploadInsert(r, ok) ==
  /\ reqs[r].pc = "insert"
  /\ IF ok
     THEN /\ blog_images' = blog_images \cup {ImageRow(r, reqs[r].blog, reqs[r].fileName)}
          /\ Answer(r, 200)
     ELSE /\ blog_images' = blog_images
          /\ reqs' = [reqs EXCEPT ![r].pc = "cleanup"]
  /\ UNCHANGED <<sdkVars, storage, r2BaseUrl>>

\* POST: r2.send(DeleteObjectCommand) of the cleanup settles; 500 either way
UploadCleanup(r, ok) ==
  /\ reqs[r].pc = "cleanup"
  /\ storage' = IF ok THEN storage \ {reqs[r].fileName} ELSE storage
  /\ Answer(r, 500)
  /\ UNCHANGED <<sdkVars, blog_images, r2BaseUrl>>

\* DELETE: from the start of the handler to the delete from blog_images: the
\* user and ownership checks (401)
DeleteStart(r, user, blogId, lookupError, fileName) ==
  /\ CanStartReq(r)
  /\ reqs' = [reqs EXCEPT ![r] =
       [kind |-> "delete", user |-> user, blog |-> blogId, lookupError |-> lookupError,
        pc |-> IF IsAuthorized(user, blogId, lookupError) THEN "dbDelete" ELSE "done",
        status |-> IF IsAuthorized(user, blogId, lookupError) THEN 0 ELSE 401,
        fileName |-> IF IsAuthorized(user, blogId, lookupError) THEN fileName ELSE NoFile]]
  /\ UNCHANGED <<sdkVars, storage, blog_images, r2BaseUrl>>

\* DELETE: the delete from blog_images settles: the rows of the blog whose
\* file_url is R2_BASE_URL/fileName are removed, or the delete errors (500)
DeleteDb(r, ok) ==
  /\ reqs[r].pc = "dbDelete"
  /\ IF ok
     THEN /\ blog_images' =
               { row \in blog_images :
                   ~(/\ row.blog_id = reqs[r].blog
                     /\ row.file_url = DeleteUrl(r2BaseUrl, reqs[r].fileName)) }
          /\ reqs' = [reqs EXCEPT ![r].pc = "r2Delete"]
     ELSE /\ blog_images' = blog_images
          /\ Answer(r, 500)
  /\ UNCHANGED <<sdkVars, storage, r2BaseUrl>>

\* DELETE: r2.send(DeleteObjectCommand) settles: the object of that name is
\* removed and the handler answers 200, or the send fails (500)
DeleteR2(r, ok) ==
  /\ reqs[r].pc = "r2Delete"
  /\ IF ok
     THEN /\ storage' = storage \ {reqs[r].fileName}
          /\ Answer(r, 200)
     ELSE /\ storage' = storage
          /\ Answer(r, 500)
  /\ UNCHANGED <<sdkVars, blog_images, r2BaseUrl>>

InitImages ==
  /\ window = Undefined
  /\ mgmt = NoClient
  /\ pub = NoClient
  /\ calls = [c \in CallIds |-> IdleCall]
  /\ sent = [c \in CallIds |-> <<>>]
  /\ console = [c \in CallIds |-> <<>>]
  /\ ImagesIdle
  /\ r2BaseUrl \in R2BaseUrls

NextImages ==
  \/ \E r \in ReqIds, a \in AuthCases, i \in UploadInputs, imageOk \in BOOLEAN :
        UploadStart(r, a.user, a.blog, a.lookupError, i.name, i.now, i.webp, imageOk)
  \/ \E r \in ReqIds, ok \in BOOLEAN : UploadPut(r, ok)
  \/ \E r \in ReqIds, ok \in BOOLEAN : UploadInsert(r, ok)
  \/ \E r \in ReqIds, ok \in BOOLEAN : UploadCleanup(r, ok)
  \/ \E r \in ReqIds, a \in AuthCases, f \in FileNames :
        DeleteStart(r, a.user, a.blog, a.lookupError, f)
  \/ \E r \in ReqIds, ok \in BOOLEAN : DeleteDb(r, ok)
  \/ \E r \in ReqIds, ok \in BOOLEAN : DeleteR2(r, ok)

SpecImages == InitImages /\ [][NextImages]_vars

(***************************************************************************)
(* Claims about the image routes                                           *)
(***************************************************************************)

\* C16: in every reachable state, under any sequence or interleaving of upload
\* and delete requests, every blog_images record refers to a file name whose
\* object exists in storage.  The handlers do not keep this: the cleanup of an
\* upload whose insert failed deletes the object by its file name, which an
\* earlier upload's record may name; and a DELETE removes the object even when
\* its delete from blog_images matched no record.
C16_Original == \A row \in blog_images : row.file_name \in storage

\* the request has a user and that user is the owner of the blog in the path
IsOwnerRequest(q) ==
  /\ q.user # NoUser
  /\ ~q.lookupError
  /\ q.blog \in DOMAIN BlogOwner
  /\ BlogOwner[q.blog] = q.user

\* every request that is not the owner's has been answered 401
Refused401 ==
  \A r \in ReqIds :
    (reqs[r].pc # "idle" /\ ~IsOwnerRequest(reqs[r]))
      => (reqs[r].pc = "done" /\ reqs[r].status = 401)

\* a step that changes storage or blog_images is a step of one request, which
\* had passed the checks as the owner's; a step that answers 401 changes neither
OnlyOwnerWrites ==
  /\ (storage' # storage \/ blog_images' # blog_images)
       => \E r \in ReqIds :
            /\ reqs[r].pc \notin {"idle", "done"}
            /\ IsOwnerRequest(reqs[r])
            /\ \A q \in ReqIds \ {r} : reqs'[q] = reqs[q]
  /\ \A r \in ReqIds :
       (reqs'[r].status = 401 /\ reqs[r].status # 401)
         => (storage' = storage /\ blog_images' = blog_images)

\* C17: an upload or delete request changes storage or blog_images only when
\* it has an authenticated user who owns the blog named in the path; with no
\* user, a missing blog, a failed ownership lookup or a user who is not the
\* owner, the handler answers 401 and leaves storage and blog_images unchanged.
C17_OwnerOnly == []Refused401 /\ [][OnlyOwnerWrites]_vars

\* the owner's upload was answered 200 with its object and record in place,
\* and then another user's delete for that blog was answered 401
C17_Witness ==
  /\ reqs[1].kind = "upload" /\ reqs[1].status = 200
  /\ reqs[1].user = "u1" /\ reqs[1].blog = "b1"
  /\ reqs[2].kind = "delete" /\ reqs[2].status = 401
  /\ reqs[2].user = "u2" /\ reqs[2].blog = "b1"
  /\ reqs[1].fileName \in storage
  /\ \E row \in blog_images : row.id = 1 /\ row.file_name = reqs[1].fileName

====
